---- MODULE Spec2Model ----
(***************************************************************************)
(* A model of upload.py: the one-shot migration of flat CSV extracts into  *)
(* a relational store.  Migration.import_all runs ten entity importers in  *)
(* a fixed order; each reads its extract, reshapes it with pandas and      *)
(* hands the dataset to Util.import_func, which projects it on the live    *)
(* schema of the target table, inserts row by row and commits.             *)
(*                                                                         *)
(* Text is modelled as sequences of one-character strings, so that the     *)
(* column normaliser, the substring tests that pick the category family,   *)
(* and the join/split of the melter are computed as the code computes      *)
(* them.  A cell is a record [t, v]: t is the pandas type of the value     *)
(* ("nan", "int", "float", "str"; "none" once the loader has replaced the  *)
(* null sentinels) and v its text.                                         *)
(***************************************************************************)
EXTENDS Naturals, Sequences, FiniteSets, TLC

VARIABLES
    files,      \* environment: the extract behind each CSV path
    schema,     \* environment: table -> columns of the live schema
    committed,  \* store: table -> rows committed
    pending,    \* store: table -> rows inserted in the open transaction
    pc,         \* import_all: index of the next importer, Done after the run
    invoked,    \* importers invoked so far, in order
    loads,      \* calls of Util.import_func so far: [table, df]
    inserts,    \* INSERT statements executed so far: [table, columns, rows]
    commits,    \* conn.commit() calls so far: the table being loaded
    errors,     \* logging.exception calls so far: [where, kind]
    raised      \* TRUE iff the last importer call ended by raising

vars == <<files, schema, committed, pending, pc, invoked, loads, inserts,
          commits, errors, raised>>

(***************************************************************************)
(* Bounds of the model.                                                    *)
(***************************************************************************)
\* Largest number of rows of the budget, journal and admin-view extracts.
MaxRows == 2
\* Largest number of rows of Account.csv.
MaxAccounts == 1
\* Largest number of rows of Rad_Account.csv.
MaxRadAccounts == 1
\* Largest number of extract reads that fail in one run.
MaxReadFailures == 2

(***************************************************************************)
(* Text.                                                                   *)
(***************************************************************************)
UpperChars == <<"A", "B", "C", "D", "E", "F", "G", "H", "I", "J", "K", "L", "M",
                "N", "O", "P", "Q", "R", "S", "T", "U", "V", "W", "X", "Y", "Z">>
LowerChars == <<"a", "b", "c", "d", "e", "f", "g", "h", "i", "j", "k", "l", "m",
                "n", "o", "p", "q", "r", "s", "t", "u", "v", "w", "x", "y", "z">>

\* str.lower() on one character
LowerChar(c) ==
    IF \E i \in 1..Len(UpperChars) : UpperChars[i] = c
    THEN LowerChars[CHOOSE i \in 1..Len(UpperChars) : UpperChars[i] = c]
    ELSE c

\* str.lower()
Lower(s) == [i \in 1..Len(s) |-> LowerChar(s[i])]

\* str.replace(c, d) for single characters c and d
ReplaceChar(s, c, d) == [i \in 1..Len(s) |-> IF s[i] = c THEN d ELSE s[i]]

\* str.replace(c, "") for a single character c
RemoveChar(s, c) == SelectSeq(s, LAMBDA x : x # c)

\* Python's `sub in s` on strings
Contains(sub, s) ==
    \E i \in 1..(Len(s) + 1) :
        /\ i + Len(sub) - 1 <= Len(s)
        /\ SubSeq(s, i, i + Len(sub) - 1) = sub

(***************************************************************************)
(* The string literals of upload.py.                                       *)
(***************************************************************************)
s_id == <<"i", "d">>
s_chart_id == <<"c", "h", "a", "r", "t", "_", "i", "d">>
s_account_no == <<"a", "c", "c", "o", "u", "n", "t", "_", "n", "o">>
s_parent_key_id == <<"p", "a", "r", "e", "n", "t", "_", "k", "e", "y", "_", "i", "d">>
s_parent_account_no == <<"p", "a", "r", "e", "n", "t", "_", "a", "c", "c", "o", "u", "n", "t", "_", "n", "o">>
s_date_created == <<"d", "a", "t", "e", "_", "c", "r", "e", "a", "t", "e", "d">>
s_rad_type_id == <<"r", "a", "d", "_", "t", "y", "p", "e", "_", "i", "d">>
s_account_id == <<"a", "c", "c", "o", "u", "n", "t", "_", "i", "d">>
s_rad_type == <<"r", "a", "d", "_", "t", "y", "p", "e">>
s_rad_id == <<"r", "a", "d", "_", "i", "d">>
s_rad == <<"r", "a", "d">>
s_description == <<"d", "e", "s", "c", "r", "i", "p", "t", "i", "o", "n">>
s_RAD == <<"R", "A", "D">>
s_Description == <<"D", "e", "s", "c", "r", "i", "p", "t", "i", "o", "n">>
s_budget_id == <<"b", "u", "d", "g", "e", "t", "_", "i", "d">>
s_business_unit_id == <<"b", "u", "s", "i", "n", "e", "s", "s", "_", "u", "n", "i", "t", "_", "i", "d">>
s_amount == <<"a", "m", "o", "u", "n", "t">>
s_company_id == <<"c", "o", "m", "p", "a", "n", "y", "_", "i", "d">>
s_entry_id == <<"e", "n", "t", "r", "y", "_", "i", "d">>
s_accounting_date == <<"a", "c", "c", "o", "u", "n", "t", "i", "n", "g", "_", "d", "a", "t", "e">>
s_remarks == <<"r", "e", "m", "a", "r", "k", "s">>
s_BusinessUnitid == <<"B", "u", "s", "i", "n", "e", "s", "s", "U", "n", "i", "t", "i", "d">>
s_BusinessUnit == <<"B", "u", "s", "i", "n", "e", "s", "s", "U", "n", "i", "t">>
s_Company == <<"C", "o", "m", "p", "a", "n", "y">>
s_journal_entry_id == <<"j", "o", "u", "r", "n", "a", "l", "_", "e", "n", "t", "r", "y", "_", "i", "d">>

DigitChars == <<"0", "1", "2", "3", "4", "5", "6", "7", "8", "9">>

RECURSIVE Digits(_)
\* str(n) for a natural number n
Digits(n) ==
    IF n < 10 THEN <<DigitChars[n + 1]>>
    ELSE Digits(n \div 10) \o <<DigitChars[(n % 10) + 1]>>

(***************************************************************************)
(* Cells and data frames.                                                  *)
(***************************************************************************)
NaN == [t |-> "nan", v |-> <<>>]            \* numpy.nan: a blank CSV field
None == [t |-> "none", v |-> <<>>]          \* Python None: SQL NULL
StrCell(s) == [t |-> "str", v |-> s]
IntCell(n) == [t |-> "int", v |-> Digits(n)]
FloatCell(s) == [t |-> "float", v |-> s]    \* s is the float's text, "10.0"

\* pd.isna(x)
IsNa(c) == c.t \in {"nan", "none"}

\* str(x), as astype(str) and the melter's lambdas compute it
PyStr(c) ==
    CASE c.t = "nan" -> <<"n", "a", "n">>
      [] c.t = "none" -> <<"N", "o", "n", "e">>
      [] OTHER -> c.v

\* A data frame: its column labels and its rows, each row aligned with them.
Frame(columns, rows) == [columns |-> columns, rows |-> rows]

HasColumn(df, name) == \E i \in 1..Len(df.columns) : df.columns[i] = name

HasColumns(df, names) == \A j \in 1..Len(names) : HasColumn(df, names[j])

ColumnIndex(df, name) == CHOOSE i \in 1..Len(df.columns) : df.columns[i] = name

\* df[name] of one row
Cell(df, row, name) == row[ColumnIndex(df, name)]

\* df[[names]]
Select(df, names) ==
    Frame(names,
          [r \in 1..Len(df.rows) |->
              [j \in 1..Len(names) |-> Cell(df, df.rows[r], names[j])]])

\* df.rename(columns = {old: new})
Rename(df, old, new) ==
    Frame([i \in 1..Len(df.columns) |->
              IF df.columns[i] = old THEN new ELSE df.columns[i]],
          df.rows)

\* df[name] = values, replacing the column or appending it
SetColumn(df, name, values) ==
    IF HasColumn(df, name)
    THEN Frame(df.columns,
               [r \in 1..Len(df.rows) |->
                   [df.rows[r] EXCEPT ![ColumnIndex(df, name)] = values[r]]])
    ELSE Frame(Append(df.columns, name),
               [r \in 1..Len(df.rows) |-> Append(df.rows[r], values[r])])

\* df[name]
Column(df, name) == [r \in 1..Len(df.rows) |-> Cell(df, df.rows[r], name)]

\* Faulty variant of AssignId: df["id"] = df.index, the ids start at 0.
AssignIdFromZero(df) == SetColumn(df, s_id, [r \in 1..Len(df.rows) |-> IntCell(r - 1)])

\* df = df.reset_index(drop=True); df["id"] = df.index + 1
AssignId(df) == SetColumn(df, s_id, [r \in 1..Len(df.rows) |-> IntCell(r)])

\* df.dropna(subset=name)
DropNaSubset(df, name) ==
    Frame(df.columns, SelectSeq(df.rows, LAMBDA row : ~IsNa(Cell(df, row, name))))

\* df.dropna()
DropNa(df) ==
    Frame(df.columns,
          SelectSeq(df.rows, LAMBDA row : \A i \in 1..Len(row) : ~IsNa(row[i])))

\* The column holds text (dtype object): only then does it have a .str accessor.
IsObjectColumn(df, name) ==
    \/ Len(df.rows) = 0
    \/ \E r \in 1..Len(df.rows) : Cell(df, df.rows[r], name).t = "str"

(***************************************************************************)
(* Util.sanitize_columns                                                   *)
(***************************************************************************)
SanitizeName(name) ==
    RemoveChar(RemoveChar(Lower(ReplaceChar(name, " ", "_")), "/"), ".")

sanitize_columns(df) ==
    Frame([i \in 1..Len(df.columns) |-> SanitizeName(df.columns[i])], df.rows)

(***************************************************************************)
(* The store session.  One connection, autocommit off: the rows an INSERT  *)
(* adds stay in the open transaction (pending) until conn.commit() makes   *)
(* them durable.  A fault is what the store does to one call of            *)
(* Util.import_func: nothing, or it rejects the schema query, the INSERT   *)
(* of one row, or the COMMIT.                                              *)
(***************************************************************************)
Tables == {"account", "rad_type", "rad", "business_unit", "account_rad_type",
           "budget", "budget_rad", "journal_entry_rad", "journal_entry",
           "budget_entry_admin_view"}

\* Rows of a dataset whose INSERT the store may reject.
FaultRows == 1..MaxRows

NoFault == [kind |-> "none", row |-> 0]

Faults ==
    {NoFault, [kind |-> "introspect", row |-> 0], [kind |-> "commit", row |-> 0]}
        \cup {[kind |-> "row", row |-> k] : k \in FaultRows}

\* The store and the logs, as the importers read and change them.
ThisStore ==
    [committed |-> committed, pending |-> pending, loads |-> loads,
     inserts |-> inserts, commits |-> commits, errors |-> errors]

NothingPending == [t \in Tables |-> <<>>]

\* logging.exception(...) in `where`
Logged(st, where, kind) ==
    [st EXCEPT !.errors = Append(@, [where |-> where, kind |-> kind])]

\* The call returned / raised, leaving the store and the logs as st.
Returned(st) == [st |-> st, raised |-> FALSE]
Raised(st) == [st |-> st, raised |-> TRUE]

(***************************************************************************)
(* Util.import_func                                                        *)
(***************************************************************************)
\* Faulty variant of Project: the dataset is not restricted to the table's columns.
ProjectNothing(df, table_columns) == df

\* df = df[[col for col in df.columns if col in table_columns]]
Project(df, table_columns) ==
    Select(df, SelectSeq(df.columns, LAMBDA col : col \in table_columns))

\* df.replace({np.nan: None}); df.replace({"": None})
ReplaceNulls(df) ==
    Frame(df.columns,
          [r \in 1..Len(df.rows) |->
              [i \in 1..Len(df.rows[r]) |->
                  LET x == df.rows[r][i]
                  IN  IF x.t = "nan" \/ (x.t = "str" /\ x.v = <<>>) THEN None ELSE x]])

\* Faulty variant of Empty: only a dataset without rows counts as empty.
EmptyOfRows(df) == Len(df.rows) = 0

\* df.empty: no column or no row
Empty(df) == Len(df.columns) = 0 \/ Len(df.rows) = 0

\* The rows as the table holds them.
Stored(df, rows) == [r \in 1..Len(rows) |-> [columns |-> df.columns, cells |-> rows[r]]]

\* cursor.executemany(insert_query, rows): one INSERT per row, in the open
\* transaction; the first `done` rows went through.
ExecuteMany(st, table, df, done) ==
    [st EXCEPT !.inserts = Append(@, [table |-> table, columns |-> df.columns,
                                      rows |-> Len(df.rows)]),
               !.pending[table] = @ \o Stored(df, SubSeq(df.rows, 1, done))]

\* conn.commit(): everything in the open transaction becomes durable.
Commit(st, table) ==
    [st EXCEPT !.committed = [t \in Tables |-> st.committed[t] \o st.pending[t]],
               !.pending = NothingPending,
               !.commits = Append(@, table)]

\* except Exception as error: logging.exception(...); raise error
ImportFailed(st, table, kind) == Raised(Logged(st, table, kind))

\* Faulty variant of InsertFailed: the commit sits in a finally clause and runs on
\* the failure path too.
InsertFailedThenCommit(st, table) == ImportFailed(Commit(st, table), table, "InsertError")

\* cursor.executemany raised: the rows inserted before the failing one stay
\* in the open transaction, which nothing commits
InsertFailed(st, table) == ImportFailed(st, table, "InsertError")

import_func(st, df, table, fault) ==
    LET called == [st EXCEPT !.loads = Append(@, [table |-> table, df |-> df])]
        p == ReplaceNulls(Project(df, schema[table]))
    IN  IF fault.kind = "introspect"
        THEN ImportFailed(called, table, "SchemaQueryError")
        ELSE IF Empty(p)
        THEN ImportFailed(called, table, "NoMatchingColumns")
        ELSE IF Len(p.rows[1]) # Len(p.columns)
        THEN ImportFailed(called, table, "RowLengthMismatch")
        ELSE IF fault.kind = "row" /\ fault.row <= Len(p.rows)
        THEN InsertFailed(ExecuteMany(called, table, p, fault.row - 1), table)
        ELSE IF fault.kind = "commit"
        THEN ImportFailed([ExecuteMany(called, table, p, Len(p.rows))
                              EXCEPT !.pending = NothingPending],
                          table, "CommitError")
        ELSE Returned(Commit(ExecuteMany(called, table, p, Len(p.rows)), table))

(***************************************************************************)
(* Util.execute_query, for the one query the program runs:                 *)
(* SELECT id, account_no FROM account.  The session sees the table's       *)
(* committed rows and those of its own open transaction; id is the serial  *)
(* key the store gave the row unless the row was inserted with one.        *)
(***************************************************************************)
StoredCell(row, name, default) ==
    IF \E i \in 1..Len(row.columns) : row.columns[i] = name
    THEN row.cells[CHOOSE i \in 1..Len(row.columns) : row.columns[i] = name]
    ELSE default

execute_query(st) ==
    LET visible == st.committed["account"] \o st.pending["account"]
    IN  Frame(<<s_id, s_account_no>>,
              [r \in 1..Len(visible) |->
                  <<StoredCell(visible[r], s_id, IntCell(r)),
                    StoredCell(visible[r], s_account_no, None)>>])

(***************************************************************************)
(* pandas.read_csv: every field of an extract is text, blank when the CSV  *)
(* field is empty; a column of integer literals is read as int64, a        *)
(* numeric column with a blank or a decimal point as float64 (blank is     *)
(* NaN), any other column as object (text).                                *)
(***************************************************************************)
IsDigits(s) ==
    /\ Len(s) > 0
    /\ \A i \in 1..Len(s) : \E d \in 1..Len(DigitChars) : DigitChars[d] = s[i]

IsDecimal(s) ==
    \E k \in 1..Len(s) :
        /\ s[k] = "."
        /\ IsDigits(SubSeq(s, 1, k - 1))
        /\ IsDigits(SubSeq(s, k + 1, Len(s)))

ColumnDtype(raw, i) ==
    LET fields == {raw.rows[r][i] : r \in 1..Len(raw.rows)}
    IN  IF fields # {} /\ \A s \in fields : IsDigits(s) THEN "int"
        ELSE IF \A s \in fields : s = <<>> \/ IsDigits(s) \/ IsDecimal(s) THEN "float"
        ELSE "object"

ReadField(dtype, s) ==
    IF s = <<>> THEN NaN
    ELSE CASE dtype = "int" -> [t |-> "int", v |-> s]
           [] dtype = "float" -> FloatCell(IF IsDigits(s) THEN s \o <<".", "0">> ELSE s)
           [] OTHER -> StrCell(s)

read_csv(raw) ==
    Frame(raw.columns,
          [r \in 1..Len(raw.rows) |->
              [i \in 1..Len(raw.columns) |->
                  ReadField(ColumnDtype(raw, i), raw.rows[r][i])]])

(***************************************************************************)
(* Type coercion of single values.                                         *)
(***************************************************************************)
RECURSIVE ReplaceAll(_, _, _)
\* str.replace(pat, rep), literal
ReplaceAll(s, pat, rep) ==
    IF Len(s) < Len(pat) \/ Len(pat) = 0 THEN s
    ELSE IF SubSeq(s, 1, Len(pat)) = pat
    THEN rep \o ReplaceAll(SubSeq(s, Len(pat) + 1, Len(s)), pat, rep)
    ELSE <<s[1]>> \o ReplaceAll(Tail(s), pat, rep)

\* replace(r"\.0$", "", regex=True)
StripDotZero(s) ==
    IF Len(s) >= 2 /\ SubSeq(s, Len(s) - 1, Len(s)) = <<".", "0">>
    THEN SubSeq(s, 1, Len(s) - 2)
    ELSE s

\* .fillna(0)
FillNaZero(c) == IF IsNa(c) THEN IntCell(0) ELSE c

\* .astype(str)
AsStr(c) == StrCell(PyStr(c))

\* the integer part of a number's text
IntegerPart(s) ==
    IF \E k \in 1..Len(s) : s[k] = "."
    THEN SubSeq(s, 1, (CHOOSE k \in 1..Len(s) : s[k] = ".") - 1)
    ELSE s

\* .astype(int) is defined on numbers and on text of digits
CanInt(c) == c.t \in {"int", "float"} \/ (c.t = "str" /\ IsDigits(c.v))
AsInt(c) == [t |-> "int", v |-> IntegerPart(c.v)]

\* .astype(float) is defined on numbers and on numeric text
CanFloat(c) == c.t \in {"int", "float"} \/ (c.t = "str" /\ (IsDigits(c.v) \/ IsDecimal(c.v)))
AsFloat(c) == FloatCell(IF IsDigits(c.v) THEN c.v \o <<".", "0">> ELSE c.v)

\* .str.replace(pat, "") on a text column: a value that is no text stays NaN
StrReplace(c, pat) == IF c.t = "str" THEN StrCell(ReplaceAll(c.v, pat, <<>>)) ELSE NaN

\* df["amount"].str.replace(",", "").fillna(0).astype(float)
AmountOk(df) ==
    /\ HasColumn(df, s_amount)
    /\ IsObjectColumn(df, s_amount)
    /\ \A r \in 1..Len(df.rows) :
           CanFloat(FillNaZero(StrReplace(Cell(df, df.rows[r], s_amount), <<",">>)))
CoerceAmount(df) ==
    SetColumn(df, s_amount,
              [r \in 1..Len(df.rows) |->
                  AsFloat(FillNaZero(StrReplace(Column(df, s_amount)[r], <<",">>)))])

\* .fillna(0).astype(str).replace(r"\.0$", "", regex=True)
CoerceKey(df, name) ==
    SetColumn(df, name,
              [r \in 1..Len(df.rows) |->
                  StrCell(StripDotZero(PyStr(FillNaZero(Column(df, name)[r]))))])

(***************************************************************************)
(* pd.merge(left, right, on=key): the inner join, in the order of the left *)
(* rows; a column the two sides share besides the key is suffixed.         *)
(***************************************************************************)
RECURSIVE Flatten(_)
Flatten(ss) == IF ss = <<>> THEN <<>> ELSE Head(ss) \o Flatten(Tail(ss))

KeyEq(a, b) == a = b \/ (a.t \in {"int", "float"} /\ b.t \in {"int", "float"}
                          /\ PyStr(AsFloat(a)) = PyStr(AsFloat(b)))

\* pandas refuses to merge a text key with a numeric one
MergeOk(left, right, key) ==
    LET text(df) == \E r \in 1..Len(df.rows) : Cell(df, df.rows[r], key).t = "str"
        number(df) == \E r \in 1..Len(df.rows) : Cell(df, df.rows[r], key).t \in {"int", "float"}
    IN  /\ HasColumn(left, key) /\ HasColumn(right, key)
        /\ ~(text(left) /\ number(right))
        /\ ~(number(left) /\ text(right))

Merge(left, right, key) ==
    LET others == SelectSeq([i \in 1..Len(right.columns) |-> i],
                            LAMBDA i : right.columns[i] # key)
        lcols == [i \in 1..Len(left.columns) |->
                    IF left.columns[i] # key /\ HasColumn(right, left.columns[i])
                    THEN left.columns[i] \o <<"_", "x">> ELSE left.columns[i]]
        rcols == [j \in 1..Len(others) |->
                    IF HasColumn(left, right.columns[others[j]])
                    THEN right.columns[others[j]] \o <<"_", "y">>
                    ELSE right.columns[others[j]]]
        joined(lrow) ==
            LET hits == SelectSeq(right.rows,
                                  LAMBDA rrow : KeyEq(Cell(left, lrow, key),
                                                      Cell(right, rrow, key)))
            IN  [h \in 1..Len(hits) |->
                    lrow \o [j \in 1..Len(others) |-> hits[h][others[j]]]]
    IN  Frame(lcols \o rcols,
              Flatten([r \in 1..Len(left.rows) |-> joined(left.rows[r])]))

(***************************************************************************)
(* The wide-to-long melter of _import_budget_rad and _import_journal_entry.*)
(***************************************************************************)
RECURSIVE Join(_, _)
\* sep.join(parts)
Join(parts, sep) ==
    IF parts = <<>> THEN <<>>
    ELSE IF Len(parts) = 1 THEN parts[1]
    ELSE parts[1] \o sep \o Join(Tail(parts), sep)

RECURSIVE Split(_, _)
\* s.split(sep) for a one-character sep: "".split(sep) is [""]
Split(s, sep) ==
    IF \E k \in 1..Len(s) : s[k] = sep
    THEN LET k == CHOOSE i \in 1..Len(s) :
                      s[i] = sep /\ \A j \in 1..(i - 1) : s[j] # sep
         IN  <<SubSeq(s, 1, k - 1)>> \o Split(SubSeq(s, k + 1, Len(s)), sep)
    ELSE <<s>>

\* The category family: [col for col in df.columns if yes in col and no not in col]
Family(df, yes, no) ==
    SelectSeq(df.columns, LAMBDA col : Contains(yes, col) /\ ~Contains(no, col))

Melt(df, cols, parent) ==
    LET \* applymap(lambda x: str(x) if not pd.isna(x) else np.nan)
        text(row) == [j \in 1..Len(cols) |->
                         LET x == Cell(df, row, cols[j])
                         IN  IF IsNa(x) THEN NaN ELSE AsStr(x)]
        \* "|".join([str(x) for x in row if not pd.isna(x)])
        Combined(row) ==
            LET kept == SelectSeq(text(row), LAMBDA x : ~IsNa(x))
            IN  Join([j \in 1..Len(kept) |-> PyStr(kept[j])], <<"|">>)
        \* assign(value = Combined.str.split("|")).explode("value")[["id", "value"]]
        exploded(row) ==
            LET value == Split(Combined(row), "|")
            IN  [j \in 1..Len(value) |-> <<Cell(df, row, s_id), StrCell(value[j])>>]
        \* replace("", NaN); dropna(); rename value -> rad_id, id -> parent
        blank(x) == IF x.t = "str" /\ x.v = <<>> THEN NaN ELSE x
        df_result == DropNa(Frame(<<parent, s_rad_id>>,
                         Flatten([r \in 1..Len(df.rows) |->
                                     [j \in 1..Len(exploded(df.rows[r])) |->
                                         <<exploded(df.rows[r])[j][1],
                                           blank(exploded(df.rows[r])[j][2])>>]])))
    IN  df_result

(***************************************************************************)
(* The datasets the importers build.  A transform that pandas ends with an *)
(* exception (KeyError for a missing column, AttributeError for .str on a  *)
(* column that holds no text, ValueError for a failed astype, or the       *)
(* exception of `df.columns = <DataFrame>`) yields Fails.                  *)
(***************************************************************************)
Ok(df) == [ok |-> TRUE, df |-> df]
Fails == [ok |-> FALSE, df |-> Frame(<<>>, <<>>)]

\* `df.columns = Util.sanitize_columns(df)`: sanitize_columns has renamed the
\* columns in place and returns the frame itself, which is then assigned to
\* df.columns.  Whether pandas accepts a DataFrame there depends on its
\* version and on the frame's shape, so the outcome is an input (setter):
\* the assignment raises, or the sanitized labels stay.
SetColumnsFromFrame(df, setter) == IF setter THEN Ok(sanitize_columns(df)) ELSE Fails

account_dataset(account_raw, account_ownership_raw) ==
    LET a1 == sanitize_columns(read_csv(account_raw))
        o1 == sanitize_columns(read_csv(account_ownership_raw))
    IN  IF ~HasColumn(a1, s_chart_id) THEN Fails
        ELSE LET a2 == DropNaSubset(a1, s_chart_id) IN
        IF \E r \in 1..Len(a2.rows) : ~CanInt(Cell(a2, a2.rows[r], s_chart_id)) THEN Fails
        ELSE LET account_df ==
                     SetColumn(a2, s_chart_id,
                               [r \in 1..Len(a2.rows) |-> AsInt(Column(a2, s_chart_id)[r])])
             IN
        IF ~HasColumns(o1, <<s_account_no, s_parent_key_id>>) THEN Fails
        ELSE IF ~IsObjectColumn(o1, s_parent_key_id) THEN Fails
        ELSE LET o2 == Select(DropNaSubset(o1, s_account_no),
                              <<s_account_no, s_parent_key_id>>)
                 account_ownership_df ==
                     SetColumn(o2, s_parent_key_id,
                               [r \in 1..Len(o2.rows) |->
                                   StrReplace(Column(o2, s_parent_key_id)[r], <<"1", "_">>)])
             IN
        IF ~MergeOk(account_df, account_ownership_df, s_account_no) THEN Fails
        ELSE LET merge == Rename(Merge(account_df, account_ownership_df, s_account_no),
                                 s_parent_key_id, s_parent_account_no) IN
        IF ~HasColumn(merge, s_date_created) THEN Fails
        ELSE Ok(merge)

\* Faulty variant of account_rad_type_dataset: the two astype(str) are missing, the
\* account numbers are joined as numbers.
account_rad_type_dataset_untyped(raw, accounts) ==
    LET rad_account == sanitize_columns(read_csv(raw))
    IN  IF ~HasColumn(rad_account, s_account_no) THEN Fails
        ELSE LET merge == Merge(rad_account, accounts, s_account_no) IN
        IF ~HasColumns(merge, <<s_rad_type_id, s_id>>) THEN Fails
        ELSE Ok(DropNa(Rename(Select(merge, <<s_rad_type_id, s_id>>),
                              s_id, s_account_id)))

\* Migration._import_account_rad_type, the transform
account_rad_type_dataset(raw, accounts) ==
    LET r1 == sanitize_columns(read_csv(raw))
    IN  IF ~HasColumn(r1, s_account_no) THEN Fails
        ELSE LET rad_account ==
                     SetColumn(r1, s_account_no,
                               [r \in 1..Len(r1.rows) |-> AsStr(Column(r1, s_account_no)[r])])
                 accounts_str ==
                     SetColumn(accounts, s_account_no,
                               [r \in 1..Len(accounts.rows) |->
                                   AsStr(Column(accounts, s_account_no)[r])])
                 merge == Merge(rad_account, accounts_str, s_account_no)
             IN
        IF ~HasColumns(merge, <<s_rad_type_id, s_id>>) THEN Fails
        ELSE Ok(DropNa(Rename(Select(merge, <<s_rad_type_id, s_id>>),
                              s_id, s_account_id)))

budget_rad_dataset(raw) ==
    LET df == AssignId(sanitize_columns(read_csv(raw)))
    IN  Ok(Melt(df, Family(df, s_rad, s_description), s_budget_id))

budget_dataset(raw, setter) ==
    LET named == SetColumnsFromFrame(read_csv(raw), setter)
    IN  IF ~named.ok THEN Fails
        ELSE LET df == AssignId(named.df) IN
        IF ~HasColumns(df, <<s_id, s_budget_id, s_business_unit_id, s_account_no, s_amount>>)
        THEN Fails
        ELSE LET sel == Select(df, <<s_id, s_budget_id, s_business_unit_id,
                                     s_account_no, s_amount>>)
                 keyed == SetColumn(sel, s_account_no,
                                    [r \in 1..Len(sel.rows) |->
                                        StrReplace(AsStr(Column(sel, s_account_no)[r]),
                                                   <<".", "0">>)])
             IN
        IF ~AmountOk(keyed) THEN Fails ELSE Ok(CoerceAmount(keyed))

journal_entry_dataset(raw, setter) ==
    LET named == SetColumnsFromFrame(read_csv(raw), setter)
    IN  IF ~named.ok THEN Fails
        ELSE LET df == AssignId(named.df) IN
        IF ~HasColumns(df, <<s_id, s_company_id, s_entry_id, s_business_unit_id,
                             s_account_no, s_amount, s_accounting_date, s_remarks>>)
        THEN Fails
        ELSE LET je == Select(df, <<s_id, s_company_id, s_entry_id, s_business_unit_id,
                                    s_account_no, s_amount, s_accounting_date, s_remarks>>)
             IN
        IF \E r \in 1..Len(je.rows) : ~CanInt(FillNaZero(Cell(je, je.rows[r], s_entry_id)))
        THEN Fails
        ELSE LET typed == CoerceKey(CoerceKey(CoerceKey(
                              SetColumn(je, s_entry_id,
                                        [r \in 1..Len(je.rows) |->
                                            AsInt(FillNaZero(Column(je, s_entry_id)[r]))]),
                              s_account_no), s_business_unit_id), s_company_id)
             IN
        IF ~AmountOk(typed) THEN Fails ELSE Ok(CoerceAmount(typed))

journal_entry_rad_dataset(raw, setter) ==
    LET named == SetColumnsFromFrame(AssignId(read_csv(raw)), setter)
    IN  IF ~named.ok THEN Fails
        ELSE LET df == named.df IN
        IF ~HasColumn(df, s_accounting_date) THEN Fails
        ELSE Ok(Melt(df, Family(df, s_RAD, s_Description), s_journal_entry_id))

rad_dataset(raw, setter) ==
    LET named == SetColumnsFromFrame(read_csv(raw), setter)
    IN  IF ~named.ok THEN Fails
        ELSE IF ~HasColumns(named.df, <<s_rad_type_id, s_rad_id, s_rad>>) THEN Fails
        ELSE Ok(Select(named.df, <<s_rad_type_id, s_rad_id, s_rad>>))

\* rad.drop_duplicates(): the first of equal rows stays
DropDuplicates(df) ==
    Frame(df.columns,
          LET keep == SelectSeq([r \in 1..Len(df.rows) |-> r],
                                LAMBDA r : \A q \in 1..(r - 1) : df.rows[q] # df.rows[r])
          IN  [k \in 1..Len(keep) |-> df.rows[keep[k]]])

rad_type_dataset(raw) ==
    LET rad == sanitize_columns(read_csv(raw))
    IN  IF ~HasColumns(rad, <<s_rad_type_id, s_rad_type>>) THEN Fails
        ELSE Ok(DropDuplicates(Select(rad, <<s_rad_type_id, s_rad_type>>)))

business_unit_dataset(raw, setter) ==
    LET named == SetColumnsFromFrame(read_csv(raw), setter)
    IN  IF ~named.ok THEN Fails
        ELSE LET df == AssignId(named.df) IN
        IF ~HasColumns(df, <<s_id, s_BusinessUnitid, s_BusinessUnit, s_company_id,
                             s_Company, s_date_created>>)
        THEN Fails
        ELSE Ok(Select(df, <<s_id, s_BusinessUnitid, s_BusinessUnit, s_company_id,
                             s_Company, s_date_created>>))

budget_entry_admin_view_dataset(raw) ==
    LET df == read_csv(raw)
    IN  Ok(AssignId(Frame([i \in 1..Len(df.columns) |-> RemoveChar(df.columns[i], " ")],
                          df.rows)))

(***************************************************************************)
(* Text of the extracts and of the schema the model runs on.               *)
(***************************************************************************)
h_ChartID == <<"C", "h", "a", "r", "t", " ", "I", "D">>
h_AccountNo == <<"A", "c", "c", "o", "u", "n", "t", " ", "N", "o">>
h_DateCreated == <<"D", "a", "t", "e", " ", "C", "r", "e", "a", "t", "e", "d">>
h_ParentKeyID == <<"P", "a", "r", "e", "n", "t", " ", "K", "e", "y", " ", "I", "D">>
h_RADTypeID == <<"R", "A", "D", " ", "T", "y", "p", "e", " ", "I", "D">>
h_RADType == <<"R", "A", "D", " ", "T", "y", "p", "e">>
h_RADID == <<"R", "A", "D", " ", "I", "D">>
h_RAD == <<"R", "A", "D">>
h_BusinessUnitId == <<"B", "u", "s", "i", "n", "e", "s", "s", "U", "n", "i", "t", "I", "d">>
h_BusinessUnit == <<"B", "u", "s", "i", "n", "e", "s", "s", "U", "n", "i", "t">>
h_CompanyID == <<"C", "o", "m", "p", "a", "n", "y", " ", "I", "D">>
h_Company == <<"C", "o", "m", "p", "a", "n", "y">>
h_BudgetID == <<"B", "u", "d", "g", "e", "t", " ", "I", "D">>
h_BusinessUnitID == <<"B", "u", "s", "i", "n", "e", "s", "s", " ", "U", "n", "i", "t", " ", "I", "D">>
h_Amount == <<"A", "m", "o", "u", "n", "t">>
h_RAD1 == <<"R", "A", "D", " ", "1">>
h_RAD2 == <<"R", "A", "D", " ", "2">>
h_RADDescription == <<"R", "A", "D", " ", "D", "e", "s", "c", "r", "i", "p", "t", "i", "o", "n">>
h_EntryID == <<"E", "n", "t", "r", "y", " ", "I", "D">>
h_AccountingDate == <<"A", "c", "c", "o", "u", "n", "t", "i", "n", "g", " ", "D", "a", "t", "e">>
h_Remarks == <<"R", "e", "m", "a", "r", "k", "s">>
h_FiscalYear == <<"F", "i", "s", "c", "a", "l", " ", "Y", "e", "a", "r">>
s_FiscalYear == <<"F", "i", "s", "c", "a", "l", "Y", "e", "a", "r">>
s_Notes == <<"N", "o", "t", "e", "s">>
t_1 == <<"1">>
t_2 == <<"2">>
t_3 == <<"3">>
t_5 == <<"5">>
t_7 == <<"7">>
t_10 == <<"1", "0">>
t_20 == <<"2", "0">>
t_amount == <<"1", ",", "0", "0", "0">>
t_x == <<"x">>
t_parent == <<"1", "_", "9">>
t_date == <<"1", "/", "2", "/", "2", "0", "2", "0">>
t_Fund == <<"F", "u", "n", "d">>
t_General == <<"G", "e", "n", "e", "r", "a", "l">>
t_Special == <<"S", "p", "e", "c", "i", "a", "l">>
t_2024 == <<"2", "0", "2", "4">>

(***************************************************************************)
(* The environments the model runs in: the extracts and the live schema.   *)
(* Three families, each varying what one component reads: the category     *)
(* cells of the budget and journal extracts (melter), the account numbers  *)
(* of the account and RAD-account extracts (resolver), and the columns of  *)
(* the admin-view extract against the columns of its table (loader).       *)
(***************************************************************************)
SeqsUpTo(S, n) == UNION {[1..k -> S] : k \in 0..n}

AccountCsv(nos) ==
    Frame(<<h_ChartID, h_AccountNo, h_DateCreated>>,
          [i \in 1..Len(nos) |-> <<t_5, nos[i], t_date>>])

AccountOwnershipCsv ==
    Frame(<<h_AccountNo, h_ParentKeyID>>, <<<<t_1, t_parent>>, <<t_2, t_parent>>>>)

RadAccountCsv(rows) == Frame(<<h_AccountNo, h_RADTypeID>>, rows)

RadCsv ==
    Frame(<<h_RADTypeID, h_RADType, h_RADID, h_RAD>>,
          <<<<t_7, t_Fund, t_10, t_General>>, <<t_7, t_Fund, t_20, t_Special>>>>)

BusinessUnitCsv ==
    Frame(<<h_BusinessUnitId, h_BusinessUnit, h_CompanyID, h_Company, h_DateCreated>>,
          <<<<t_3, t_General, t_1, t_Fund, t_date>>>>)

BudgetCsv(cats) ==
    Frame(<<h_BudgetID, h_BusinessUnitID, h_AccountNo, h_Amount,
            h_RAD1, h_RAD2, h_RADDescription>>,
          [i \in 1..Len(cats) |->
              <<t_7, t_3, t_1, t_amount, cats[i][1], cats[i][2], t_x>>])

JournalEntryCsv(cats) ==
    Frame(<<h_CompanyID, h_EntryID, h_BusinessUnitID, h_AccountNo, h_Amount,
            h_AccountingDate, h_Remarks, h_RAD1, h_RAD2, h_RADDescription>>,
          [i \in 1..Len(cats) |->
              <<t_1, t_5, t_3, t_1, t_amount, t_date, t_x,
                cats[i][1], cats[i][2], t_x>>])

AdminViewCsv(header, n) ==
    Frame(header,
          [i \in 1..n |-> [j \in 1..Len(header) |->
                              IF header[j] = h_Amount THEN t_amount ELSE t_2024]])

\* The category cells of one row: blank or a value, per category column.
CategoryCells == {<<a, b>> : a \in {<<>>, t_10}, b \in {<<>>, t_20}}

\* The rows of Rad_Account.csv: an account that exists, the same number written
\* as a decimal, an account that does not exist, a blank account number, a
\* blank RAD type.
RadAccountRows ==
    {<<t_1, t_7>>, <<t_1 \o <<".", "0">>, t_7>>, <<t_3, t_7>>, <<<<>>, t_7>>, <<t_1, <<>>>>}

DefaultSchema ==
    [t \in Tables |->
        CASE t = "account" ->
                 {s_id, s_chart_id, s_account_no, s_parent_account_no, s_date_created}
          [] t = "rad_type" -> {s_rad_type_id, s_rad_type}
          [] t = "rad" -> {s_rad_type_id, s_rad_id, s_rad}
          [] t = "business_unit" -> {s_id, s_company_id, s_date_created}
          [] t = "account_rad_type" -> {s_id, s_rad_type_id, s_account_id}
          [] t = "budget" ->
                 {s_id, s_budget_id, s_business_unit_id, s_account_no, s_amount}
          [] t = "budget_rad" -> {s_id, s_budget_id, s_rad_id}
          [] t = "journal_entry" ->
                 {s_id, s_company_id, s_entry_id, s_business_unit_id, s_account_no,
                  s_amount, s_accounting_date, s_remarks}
          [] t = "journal_entry_rad" -> {s_id, s_journal_entry_id, s_rad_id}
          [] OTHER -> {s_id, s_FiscalYear, s_amount}]

\* ./source/budget.csv and ./source/Budget.csv name one extract (the file
\* system the program was written on ignores case).
Files(nos, radAccounts, cats, adminView) ==
    [path \in {"Account.csv", "AccountOwnership.csv", "Rad_Account.csv", "Rad.csv",
               "BusinessUnit.csv", "budget.csv", "Budget.csv", "JournalEntry.csv",
               "BudgetEntryAdminView.csv"} |->
        CASE path = "Account.csv" -> AccountCsv(nos)
          [] path = "AccountOwnership.csv" -> AccountOwnershipCsv
          [] path = "Rad_Account.csv" -> RadAccountCsv(radAccounts)
          [] path = "Rad.csv" -> RadCsv
          [] path = "BusinessUnit.csv" -> BusinessUnitCsv
          [] path \in {"budget.csv", "Budget.csv"} -> BudgetCsv(cats)
          [] path = "JournalEntry.csv" -> JournalEntryCsv(cats)
          [] OTHER -> adminView]

DefaultAdminView == AdminViewCsv(<<h_FiscalYear, h_Amount>>, 1)

MeltCases ==
    {[files |-> Files(<<t_1, t_2>>, <<<<t_1, t_7>>>>, cats, DefaultAdminView),
      schema |-> DefaultSchema] : cats \in SeqsUpTo(CategoryCells, MaxRows)}

ResolveCases ==
    {[files |-> Files(nos, radAccounts, <<<<t_10, <<>>>>>>, DefaultAdminView),
      schema |-> DefaultSchema] :
        nos \in SeqsUpTo({t_1, t_2}, MaxAccounts),
        radAccounts \in SeqsUpTo(RadAccountRows, MaxRadAccounts)}

LoaderCases ==
    {[files |-> Files(<<t_1, t_2>>, <<<<t_1, t_7>>>>, <<<<t_10, <<>>>>>>,
                      AdminViewCsv(header, n)),
      schema |-> [DefaultSchema EXCEPT !["budget_entry_admin_view"] = columns]] :
        header \in {<<h_FiscalYear>>, <<h_FiscalYear, h_Amount>>},
        n \in 0..MaxRows,
        columns \in SUBSET {s_id, s_FiscalYear, s_Notes}}

Environments == MeltCases \cup ResolveCases \cup LoaderCases

(***************************************************************************)
(* The importers.  Each reads its extract (the read fails or succeeds: an  *)
(* input), builds its dataset and calls Util.import_func.                  *)
(***************************************************************************)
\* The importer `name` ended with result r.
Ends(name, r) ==
    /\ committed' = r.st.committed
    /\ pending' = r.st.pending
    /\ loads' = r.st.loads
    /\ inserts' = r.st.inserts
    /\ commits' = r.st.commits
    /\ errors' = r.st.errors
    /\ invoked' = Append(invoked, name)
    /\ raised' = r.raised
    /\ UNCHANGED <<files, schema>>

\* except Exception as e: logging.exception(...); return
ReadFailed(name) == Returned(Logged(ThisStore, name, "read"))

\* table = "...": the table each importer loads
TableOf(name) ==
    CASE name = "_import_account" -> "account"
      [] name = "_import_rad_type" -> "rad_type"
      [] name = "_import_rad" -> "rad"
      [] name = "_import_business_unit" -> "business_unit"
      [] name = "_import_account_rad_type" -> "account_rad_type"
      [] name = "_import_budget" -> "budget"
      [] name = "_import_budget_rad" -> "budget_rad"
      [] name = "_import_journal_entry" -> "journal_entry_rad"
      [] name = "_import_journal_entry_rad" -> "journal_entry"
      [] name = "_import_budget_entry_admin_view" -> "budget_entry_admin_view"

\* Util.import_func(dataset, table, self.conn), unless the transform raised
Load(d, table, fault) ==
    IF d.ok THEN import_func(ThisStore, d.df, table, fault) ELSE Raised(ThisStore)

\* The outcomes of pd.read_csv: it raises (FALSE) or returns the extract.
ReadFailures == Cardinality({i \in 1..Len(errors) : errors[i].kind = "read"})
Reads == IF ReadFailures < MaxReadFailures THEN BOOLEAN ELSE {TRUE}

_import_account ==
    \E read \in Reads :
        LET d == account_dataset(files["Account.csv"], files["AccountOwnership.csv"])
        IN  \E fault \in Faults :
                Ends("_import_account",
                     IF ~read THEN ReadFailed("_import_account")
                     ELSE Load(d, TableOf("_import_account"), fault))

_import_account_rad_type ==
    \E read \in Reads, query \in BOOLEAN :
        LET rad_account == sanitize_columns(read_csv(files["Rad_Account.csv"]))
            d == account_rad_type_dataset(files["Rad_Account.csv"],
                                          execute_query(ThisStore))
        IN  \E fault \in Faults :
                Ends("_import_account_rad_type",
                     IF ~read THEN ReadFailed("_import_account_rad_type")
                     ELSE IF ~HasColumn(rad_account, s_account_no)
                     THEN Raised(ThisStore)
                     ELSE IF ~query
                     THEN Raised(Logged(ThisStore, "execute_query", "QueryError"))
                     ELSE Load(d, TableOf("_import_account_rad_type"), fault))

_import_budget_rad ==
    \E read \in Reads :
        LET d == budget_rad_dataset(files["budget.csv"])
        IN  \E fault \in Faults :
                Ends("_import_budget_rad",
                     IF ~read THEN ReadFailed("_import_budget_rad")
                     ELSE Load(d, TableOf("_import_budget_rad"), fault))

_import_budget ==
    \E read \in Reads, setter \in BOOLEAN :
        LET d == budget_dataset(files["Budget.csv"], setter)
        IN  \E fault \in Faults :
                Ends("_import_budget",
                     IF ~read THEN ReadFailed("_import_budget")
                     ELSE Load(d, TableOf("_import_budget"), fault))

_import_journal_entry_rad ==
    \E read \in Reads, setter \in BOOLEAN :
        LET d == journal_entry_dataset(files["JournalEntry.csv"], setter)
        IN  \E fault \in Faults :
                Ends("_import_journal_entry_rad",
                     IF ~read THEN ReadFailed("_import_journal_entry_rad")
                     ELSE Load(d, TableOf("_import_journal_entry_rad"), fault))

_import_journal_entry ==
    \E read \in Reads, setter \in BOOLEAN :
        LET d == journal_entry_rad_dataset(files["JournalEntry.csv"], setter)
        IN  \E fault \in Faults :
                Ends("_import_journal_entry",
                     IF ~read THEN ReadFailed("_import_journal_entry")
                     ELSE Load(d, TableOf("_import_journal_entry"), fault))

_import_rad ==
    \E read \in Reads, setter \in BOOLEAN :
        LET d == rad_dataset(files["Rad.csv"], setter)
        IN  \E fault \in Faults :
                Ends("_import_rad",
                     IF ~read THEN ReadFailed("_import_rad")
                     ELSE Load(d, TableOf("_import_rad"), fault))

_import_rad_type ==
    \E read \in Reads :
        LET d == rad_type_dataset(files["Rad.csv"])
        IN  \E fault \in Faults :
                Ends("_import_rad_type",
                     IF ~read THEN ReadFailed("_import_rad_type")
                     ELSE Load(d, TableOf("_import_rad_type"), fault))

_import_business_unit ==
    \E read \in Reads, setter \in BOOLEAN :
        LET d == business_unit_dataset(files["BusinessUnit.csv"], setter)
        IN  \E fault \in Faults :
                Ends("_import_business_unit",
                     IF ~read THEN ReadFailed("_import_business_unit")
                     ELSE Load(d, TableOf("_import_business_unit"), fault))

_import_budget_entry_admin_view ==
    \E read \in Reads :
        LET d == budget_entry_admin_view_dataset(files["BudgetEntryAdminView.csv"])
        IN  \E fault \in Faults :
                Ends("_import_budget_entry_admin_view",
                     IF ~read THEN ReadFailed("_import_budget_entry_admin_view")
                     ELSE Load(d, TableOf("_import_budget_entry_admin_view"), fault))

(***************************************************************************)
(* Migration.import_all: the importers in the order of lines 100-109, in   *)
(* one try block.  An importer that raises ends the block: the except      *)
(* clause logs and import_all returns.                                     *)
(***************************************************************************)
Order ==
    <<"_import_account", "_import_rad_type", "_import_rad", "_import_business_unit",
      "_import_account_rad_type", "_import_budget", "_import_budget_rad",
      "_import_journal_entry", "_import_journal_entry_rad",
      "_import_budget_entry_admin_view">>

Done == Len(Order) + 1

At(name) == pc \in 1..Len(Order) /\ Order[pc] = name

Continue == pc' = IF raised' THEN Done ELSE pc + 1

import_all ==
    \/ At("_import_account") /\ _import_account /\ Continue
    \/ At("_import_rad_type") /\ _import_rad_type /\ Continue
    \/ At("_import_rad") /\ _import_rad /\ Continue
    \/ At("_import_business_unit") /\ _import_business_unit /\ Continue
    \/ At("_import_account_rad_type") /\ _import_account_rad_type /\ Continue
    \/ At("_import_budget") /\ _import_budget /\ Continue
    \/ At("_import_budget_rad") /\ _import_budget_rad /\ Continue
    \/ At("_import_journal_entry") /\ _import_journal_entry /\ Continue
    \/ At("_import_journal_entry_rad") /\ _import_journal_entry_rad /\ Continue
    \/ At("_import_budget_entry_admin_view") /\ _import_budget_entry_admin_view /\ Continue

Init ==
    /\ \E env \in Environments : files = env.files /\ schema = env.schema
    /\ committed = [t \in Tables |-> <<>>]
    /\ pending = NothingPending
    /\ pc = 1
    /\ invoked = <<>>
    /\ loads = <<>>
    /\ inserts = <<>>
    /\ commits = <<>>
    /\ errors = <<>>
    /\ raised = FALSE

Next == import_all

Spec == Init /\ [][Next]_vars

(***************************************************************************)
(* What the logs say about a run.                                          *)
(***************************************************************************)
Range(f) == {f[i] : i \in DOMAIN f}

Invoked(name) == name \in Range(invoked)
Attempted(table) == \E j \in 1..Len(loads) : loads[j].table = table
DatasetOf(table) == loads[CHOOSE j \in 1..Len(loads) : loads[j].table = table].df
Inserted(table) == \E j \in 1..Len(inserts) : inserts[j].table = table
Committed(table) == table \in Range(commits)
ErrorsOf(where) == {errors[i].kind : i \in {j \in 1..Len(errors) : errors[j].where = where}}
StoreFaults == {"SchemaQueryError", "InsertError", "CommitError"}

\* The referenced table and the table that depends on it.
Dependencies ==
    {<<"account", "account_rad_type">>, <<"budget", "budget_rad">>,
     <<"journal_entry", "journal_entry_rad">>}

ImporterOf(table) == CHOOSE name \in Range(Order) : TableOf(name) = table

(***************************************************************************)
(* C1: when an importer fails, import_all still invokes every importer     *)
(* that comes later in the order: once the run is over, every importer has *)
(* been invoked.                                                           *)
(***************************************************************************)
C1_FailureDoesNotStopLaterImporters ==
    pc = Done => \A i \in 1..Len(Order) : Invoked(Order[i])

(***************************************************************************)
(* C2: the load of a referenced table has its turn before the load of a    *)
(* table that depends on it: when the load of the dependent table has been *)
(* attempted, the importer of the referenced table has been invoked.       *)
(***************************************************************************)
C2_ReferencedTableFirst ==
    \A d \in Dependencies : Attempted(d[2]) => Invoked(ImporterOf(d[1]))

(***************************************************************************)
(* C3: a table load is all or nothing.  In every state the committed rows  *)
(* of a table are all the rows of the dataset handed to the loader, after  *)
(* a commit for that table, or none; a load that failed left no committed  *)
(* row, whatever the row the INSERT failed at.                             *)
(***************************************************************************)
C3_LoadIsAtomic ==
    \A t \in Tables :
        /\ Committed(t) =>
               /\ Attempted(t)
               /\ Len(committed[t]) = Len(DatasetOf(t).rows)
               /\ ErrorsOf(t) = {}
        /\ ~Committed(t) => committed[t] = <<>>
        /\ ErrorsOf(t) # {} => committed[t] = <<>>

\* A load failed at its second row, after another table was committed.
C3_Witness ==
    \E t \in Tables, u \in Tables :
        /\ "InsertError" \in ErrorsOf(t)
        /\ Len(pending[t]) = 1
        /\ committed[t] = <<>>
        /\ Committed(u) /\ Len(committed[u]) >= 2

NoOverlap(t) == Attempted(t) /\ Range(DatasetOf(t).columns) \cap schema[t] = {}

(***************************************************************************)
(* C4: a dataset that has no column in common with the live schema of its  *)
(* table makes the loader fail with the no-matching-columns error; no      *)
(* INSERT is executed and nothing is committed for the table.              *)
(***************************************************************************)
C4_EmptyProjectionFails ==
    \A t \in Tables :
        NoOverlap(t) =>
            /\ raised
            /\ ~Inserted(t)
            /\ ~Committed(t)
            /\ committed[t] = <<>> /\ pending[t] = <<>>
            /\ ErrorsOf(t) \in {{"NoMatchingColumns"}, {"SchemaQueryError"}}

\* A dataset with rows and no column of the schema was handed to the loader.
C4_Witness ==
    \E t \in Tables :
        /\ NoOverlap(t)
        /\ Len(DatasetOf(t).rows) > 0
        /\ schema[t] # {}
        /\ ErrorsOf(t) = {"NoMatchingColumns"}

(***************************************************************************)
(* C5: the columns named in an INSERT statement are exactly the columns    *)
(* the dataset and the live schema have in common.                         *)
(***************************************************************************)
C5_InsertColumnsAreIntersection ==
    \A j \in 1..Len(inserts) :
        /\ Attempted(inserts[j].table)
        /\ Range(inserts[j].columns) =
               Range(DatasetOf(inserts[j].table).columns) \cap schema[inserts[j].table]

\* An INSERT whose dataset has a column the schema lacks, and whose schema
\* has a column the dataset lacks.
C5_Witness ==
    \E j \in 1..Len(inserts) :
        LET t == inserts[j].table
        IN  /\ Range(DatasetOf(t).columns) \ schema[t] # {}
            /\ schema[t] \ Range(DatasetOf(t).columns) # {}
            /\ Len(inserts[j].columns) > 0

CategoryColumns(raw) ==
    {j \in 1..Len(raw.columns) :
        /\ Contains(s_rad, SanitizeName(raw.columns[j]))
        /\ ~Contains(s_description, SanitizeName(raw.columns[j]))}

NonBlank(raw, i) == {j \in CategoryColumns(raw) : raw.rows[i][j] # <<>>}

Emitted(df, i) == {r \in 1..Len(df.rows) : df.rows[r][1] = IntCell(i)}

MeltKeepsCardinality(table, raw) ==
    Attempted(table) =>
        /\ \A i \in 1..Len(raw.rows) :
               Cardinality(Emitted(DatasetOf(table), i)) = Cardinality(NonBlank(raw, i))
        /\ \A r \in 1..Len(DatasetOf(table).rows) :
               /\ ~IsNa(DatasetOf(table).rows[r][2])
               /\ DatasetOf(table).rows[r][2].v # <<>>

(***************************************************************************)
(* C6: both melters emit, for every source row, one output row per         *)
(* non-blank value of its category columns (the columns of the RAD family, *)
(* the description column excluded), each carrying the row's surrogate id  *)
(* and a non-empty value, and no row when all the values are blank.        *)
(***************************************************************************)
C6_MeltKeepsCardinality ==
    /\ MeltKeepsCardinality("budget_rad", files["budget.csv"])
    /\ MeltKeepsCardinality("journal_entry_rad", files["JournalEntry.csv"])

\* The half of C6 that is about the budget melter alone.
C6_BudgetMeltKeepsCardinality == MeltKeepsCardinality("budget_rad", files["budget.csv"])

RadAccounts == read_csv(files["Rad_Account.csv"])

AccountNoOfSource(i) == PyStr(RadAccounts.rows[i][1])
AccountNoOfAccount(k) == PyStr(StoredCell(committed["account"][k], s_account_no, None))

Matches ==
    {m \in (1..Len(RadAccounts.rows)) \X (1..Len(committed["account"])) :
        /\ AccountNoOfSource(m[1]) = AccountNoOfAccount(m[2])
        /\ ~IsNa(RadAccounts.rows[m[1]][2])}

(***************************************************************************)
(* C7: the dataset _import_account_rad_type hands to the loader is the     *)
(* inner join of the extract with the account table on the account number  *)
(* compared as text: one row per pair of a source row and an account with  *)
(* the same text, none for a source row without a match, and no row with a *)
(* null account_id.                                                        *)
(***************************************************************************)
C7_ResolverIsInnerJoin ==
    Attempted("account_rad_type") =>
        LET out == DatasetOf("account_rad_type")
        IN  /\ out.columns = <<s_rad_type_id, s_account_id>>
            /\ Len(out.rows) = Cardinality(Matches)
            /\ \A r \in 1..Len(out.rows) :
                   /\ ~IsNa(out.rows[r][2])
                   /\ \E m \in Matches :
                          out.rows[r] = <<RadAccounts.rows[m[1]][2], IntCell(m[2])>>

\* The resolver ran on a source row without a matching account, with accounts
\* in the table, and left the row out.
C7_Witness ==
    /\ Attempted("account_rad_type")
    /\ Len(committed["account"]) > 0
    /\ \E i \in 1..Len(RadAccounts.rows) :
           /\ ~IsNa(RadAccounts.rows[i][1])
           /\ ~IsNa(RadAccounts.rows[i][2])
           /\ \A m \in Matches : m[1] # i
    /\ DatasetOf("account_rad_type").rows = <<>>

\* The resolver ran on a source row with a matching account and kept it.
C7_WitnessMatch ==
    /\ Attempted("account_rad_type")
    /\ Len(DatasetOf("account_rad_type").rows) > 0

(***************************************************************************)
(* C9: a dataset that shares a column with the schema, whatever its number *)
(* of rows, is loaded whole when the store rejects nothing: the call ends  *)
(* without error, commits, and the table holds as many rows as the         *)
(* dataset.                                                                *)
(***************************************************************************)
C9_SharedColumnLoadsEveryRow ==
    \A t \in Tables :
        (/\ Attempted(t)
         /\ Range(DatasetOf(t).columns) \cap schema[t] # {}
         /\ ErrorsOf(t) \cap StoreFaults = {})
        => /\ ErrorsOf(t) = {}
           /\ Committed(t)
           /\ Len(committed[t]) = Len(DatasetOf(t).rows)

\* The part of C9 about datasets that have a row.
C9_NonEmptyDatasetLoadsEveryRow ==
    \A t \in Tables :
        (/\ Attempted(t)
         /\ Len(DatasetOf(t).rows) > 0
         /\ Range(DatasetOf(t).columns) \cap schema[t] # {}
         /\ ErrorsOf(t) \cap StoreFaults = {})
        => /\ ErrorsOf(t) = {}
           /\ Committed(t)
           /\ Len(committed[t]) = Len(DatasetOf(t).rows)

IdsInSourceOrder(table, raw) ==
    Attempted(table) =>
        /\ Len(DatasetOf(table).rows) = Len(raw.rows)
        /\ \A i \in 1..Len(raw.rows) :
               Cell(DatasetOf(table), DatasetOf(table).rows[i], s_id) = IntCell(i)

CategoryTexts(raw, i) ==
    {PyStr(read_csv(raw).rows[i][j]) : j \in NonBlank(raw, i)}

MeltedIdsAreSourceRows(table, raw) ==
    Attempted(table) =>
        \A r \in 1..Len(DatasetOf(table).rows) :
            \E i \in 1..Len(raw.rows) :
                /\ DatasetOf(table).rows[r][1] = IntCell(i)
                /\ DatasetOf(table).rows[r][2].v \in CategoryTexts(raw, i)

MeltedIdsAreParentIds(parent, child) ==
    (Attempted(parent) /\ Attempted(child)) =>
        \A r \in 1..Len(DatasetOf(child).rows) :
            \E q \in 1..Len(DatasetOf(parent).rows) :
                Cell(DatasetOf(parent), DatasetOf(parent).rows[q], s_id)
                    = DatasetOf(child).rows[r][1]

ReadFailedIn(name) == "read" \in ErrorsOf(name)

(***************************************************************************)
(* C8: an extract that cannot be read skips its entity only: the importer  *)
(* attempts no load and no commit for its table, and once the run is over  *)
(* every importer after it has been invoked.                               *)
(***************************************************************************)
C8_MissingExtractSkipsOnlyItsEntity ==
    \A i \in 1..Len(Order) :
        ReadFailedIn(Order[i]) =>
            /\ ~Attempted(TableOf(Order[i]))
            /\ ~Committed(TableOf(Order[i]))
            /\ pc = Done => \A j \in (i + 1)..Len(Order) : Invoked(Order[j])

\* The part of C8 about the entity itself.
C8_MissingExtractLoadsNothing ==
    \A i \in 1..Len(Order) :
        ReadFailedIn(Order[i]) =>
            /\ ~Attempted(TableOf(Order[i]))
            /\ ~Committed(TableOf(Order[i]))
            /\ committed[TableOf(Order[i])] = <<>>
====
